---- MODULE Spec2Model ----
(***************************************************************************)
(* Model of the F1Tenth safety node (safety_node.cpp), the wall-follow     *)
(* node (wall_follow.cpp, stored as src/unnamed/part_000) and the message  *)
(* streams that drive their callbacks.                                     *)
(*                                                                         *)
(* Numbers.  Lengths are in millimetres, speeds in mm/s, times in ms,      *)
(* angles in degrees (multiples of 45), trigonometric values in 1/1000.    *)
(* A C++ double/float is a record [k, v]:                                  *)
(*   k = "num"  : the finite value v (scaled as above)                     *)
(*   k = "inf"  : +infinity (v = 1) or -infinity (v = -1)                  *)
(*   k = "nan"  : NaN                                                      *)
(*   k = "tiny" : a nonzero value too small for the scale, of sign v,      *)
(*                such as std::cos(M_PI/2) = 6.1e-17                       *)
(***************************************************************************)
EXTENDS Integers, Sequences, FiniteSets, TLC

\* ------------------------------------------------------------ bounds
\* Longest scan frame (number of range readings) the environment sends.
MaxBeams == 4

\* Last clock value the model lets time reach during the startup wait.
MaxClock == 11

\* Length of the array carried by a /mux message.
MuxLen == 2

\* ------------------------------------------------- program constants
\* double ttc_threshold = 0.01 (seconds), here in ms.
ttc_threshold == 10

\* ros::Duration(10.0) of WallFollow's waitForMessage.
WaitTimeout == 10

\* double theta = pi/4.0, here in degrees.
theta0 == 45

\* ------------------------------------------------------------ floats
Num(x) == [k |-> "num", v |-> x]

Inf(s) == [k |-> "inf", v |-> s]

Tiny(s) == [k |-> "tiny", v |-> s]

NaN == [k |-> "nan", v |-> 0]

Sign(x) == IF x > 0 THEN 1 ELSE IF x < 0 THEN -1 ELSE 0

\* Sign of a float that is not NaN.
FSign(a) == IF a.k = "num" THEN Sign(a.v) ELSE a.v

IsZero(a) == a.k = "num" /\ a.v = 0

\* Position of a non-NaN float in the order of the reals.
FKey(a) ==
    CASE a.k = "inf" -> a.v * 2000000000
      [] a.k = "tiny" -> a.v
      [] OTHER -> 2 * a.v

\* a < b of IEEE-754: false as soon as one side is NaN.
FLt(a, b) == a.k # "nan" /\ b.k # "nan" /\ FKey(a) < FKey(b)

\* a <= b of IEEE-754.
FLe(a, b) == a.k # "nan" /\ b.k # "nan" /\ FKey(a) <= FKey(b)

FNeg(a) == IF a.k = "nan" THEN NaN ELSE [k |-> a.k, v |-> -a.v]

\* a * b, both scaled by 1000.
FMul(a, b) ==
    CASE a.k = "nan" \/ b.k = "nan" -> NaN
      [] a.k = "inf" \/ b.k = "inf" ->
            IF IsZero(a) \/ IsZero(b) THEN NaN ELSE Inf(FSign(a) * FSign(b))
      [] IsZero(a) \/ IsZero(b) -> Num(0)
      [] a.k = "tiny" \/ b.k = "tiny" -> Tiny(FSign(a) * FSign(b))
      [] OTHER -> Num((a.v * b.v) \div 1000)

\* a - b.
FSub(a, b) ==
    CASE a.k = "nan" \/ b.k = "nan" -> NaN
      [] a.k = "inf" /\ b.k = "inf" -> IF a.v = b.v THEN NaN ELSE a
      [] a.k = "inf" -> a
      [] b.k = "inf" -> FNeg(b)
      [] a.k = "tiny" /\ b.k = "tiny" -> IF a.v = b.v THEN Num(0) ELSE a
      [] b.k = "tiny" -> IF IsZero(a) THEN FNeg(b) ELSE a
      [] a.k = "tiny" -> IF IsZero(b) THEN a ELSE FNeg(b)
      [] OTHER -> Num(a.v - b.v)

\* a / b, the quotient scaled by 1000.  A finite value divided by a tiny one
\* is beyond every value of the model and is kept as an infinity of its sign.
FDiv(a, b) ==
    CASE a.k = "nan" \/ b.k = "nan" -> NaN
      [] a.k = "inf" /\ b.k = "inf" -> NaN
      [] a.k = "inf" -> Inf(a.v * (IF FSign(b) < 0 THEN -1 ELSE 1))
      [] b.k = "inf" -> Num(0)
      [] IsZero(b) -> IF IsZero(a) THEN NaN ELSE Inf(FSign(a))
      [] IsZero(a) -> Num(0)
      [] b.k = "tiny" -> Inf(FSign(a) * b.v)
      [] a.k = "tiny" -> Tiny(a.v * FSign(b))
      [] OTHER -> Num((a.v * 1000) \div b.v)

\* std::min(a, b): (b < a) ? b : a.
FMin(a, b) == IF FLt(b, a) THEN b ELSE a

\* A float that is neither NaN nor infinite.
IsFinite(a) == a.k \in {"num", "tiny"}

\* ------------------------------------------------------ trigonometry
\* An angle in degrees brought into -180 < d <= 180.
NormDeg(d) == LET m == d % 360 IN IF m > 180 THEN m - 360 ELSE m

\* std::cos of a multiple of 45 degrees.  cos(+-M_PI/2) is 6.1e-17, not 0.
Cos(d) ==
    LET n == NormDeg(d)
        m == IF n < 0 THEN -n ELSE n
    IN  CASE m = 0 -> Num(1000)
          [] m = 45 -> Num(707)
          [] m = 90 -> Tiny(1)
          [] m = 135 -> Num(-707)
          [] OTHER -> Num(-1000)

\* std::sin of a multiple of 45 degrees.  sin(+-M_PI) is -+1.2e-16, sin(0) is 0.
Sin(d) ==
    LET n == NormDeg(d)
    IN  CASE n = 0 -> Num(0)
          [] n = 180 -> Tiny(1)
          [] n = 90 -> Num(1000)
          [] n = -90 -> Num(-1000)
          [] OTHER -> Cos(n - 90)

\* Largest r in lo..hi with r*r <= n.
RECURSIVE SqrtIter(_, _, _)
SqrtIter(n, lo, hi) ==
    IF lo >= hi THEN lo
    ELSE LET mid == (lo + hi + 1) \div 2
         IN  IF mid * mid <= n THEN SqrtIter(n, mid, hi)
             ELSE SqrtIter(n, lo, mid - 1)

\* std::cos(std::atan(x)) = 1/sqrt(1 + x*x); atan(+-inf) = +-pi/2, whose
\* cosine is tiny and positive.
CosAtan(x) ==
    CASE x.k = "nan" -> NaN
      [] x.k = "inf" -> Tiny(1)
      [] x.k = "tiny" -> Num(1000)
      [] x.v > 30000 \/ x.v < -30000 ->
            Num(1000000 \div (IF x.v < 0 THEN -x.v ELSE x.v))
      [] OTHER -> Num(1000000 \div SqrtIter(1000000 + x.v * x.v, 1000, 46340))

\* ------------------------------------------------- safety_node.cpp
\* A std::vector<double>: size() and the storage behind operator[], indexed
\* from 0.  reserve() gives storage without changing size().
Vec(s) == [size |-> Len(s), mem |-> [i \in 0..(Len(s) - 1) |-> s[i + 1]]]

EmptyVec == Vec(<<>>)

\* Conversion of a double angle (degrees here, radians in the code) to
\* size_t, as in `size_t i = lidar_data.min_angle`: truncation toward zero
\* where the truncated value is >= 0; a value <= -1 is not representable and
\* the conversion is undefined (0 on a saturating target, a value beyond any
\* beam count on a wrapping one).
SizeTOf(deg) ==
    IF deg >= 0 THEN {(deg * 3142) \div 180000}
    ELSE IF deg > -58 THEN {0}
    ELSE {0, 2000000000}

\* The body of compute_car_perim's loop: the distance to the body edge along
\* `angle`, by the quadrant the angle lies in.
perimeter_at(car_data, angle) ==
    LET half == Num(car_data.width \div 2)
        front == Num(car_data.wheelbase - car_data.base_link)
        back == Num(car_data.base_link)
    IN  IF angle > 0
        THEN IF angle < 90
             THEN LET right_side == FDiv(half, Cos(angle))
                      top_right == FDiv(front, Cos(90 - angle))
                  IN  FMin(right_side, top_right)
             ELSE LET top_left == FDiv(front, Cos(angle - 90))
                      left_side == FDiv(half, Cos(180 - angle))
                  IN  FMin(left_side, top_left)
        ELSE IF angle < -90
             THEN LET left_side == FDiv(half, Cos(180 + angle))
                      bottom_left == FDiv(back, Cos(-angle - 90))
                  IN  FMin(left_side, bottom_left)
             ELSE LET bottom_right == FDiv(back, Cos(90 - angle))
                      right_side == FDiv(half, Cos(-angle))
                  IN  FMin(bottom_right, right_side)

\* compute_car_perim: `first` is the value `size_t i = lidar_data.min_angle`
\* takes.  The vector is only reserve()d, so its size() stays 0; every
\* car_perim[i] = ... stores past size() into the reserved storage; `angle` is
\* set once from min_angle and never advanced.
compute_car_perim(car_data, lidar_data, first) ==
    LET angle == lidar_data.min_angle
    IN  [size |-> 0,
         mem |-> [i \in first..(lidar_data.num_scans - 1) |->
                     perimeter_at(car_data, angle)]]

\* Angle of beam i of a scan message: i*angle_increment + angle_min.
BeamAngle(scan_msg, i) == i * scan_msg.angle_increment + scan_msg.angle_min

\* r_hat of beam i: speed * cos(beam angle).
r_hat(scan_msg, spd, i) == FMul(spd, Cos(BeamAngle(scan_msg, i)))

\* ttc of beam i: (ranges[i] - car_perimeter[i]) / r_hat, in ms.
ttc(scan_msg, spd, perim, i) ==
    FDiv(FSub(scan_msg.ranges[i + 1], perim.mem[i]), r_hat(scan_msg, spd, i))

\* Whether the loop body publishes for beam i: not skipped by
\* `if (r_hat <= 0) continue;` and ttc < ttc_threshold.
BeamPublishes(scan_msg, spd, perim, i) ==
    /\ ~FLe(r_hat(scan_msg, spd, i), Num(0))
    /\ FLt(ttc(scan_msg, spd, perim, i), Num(ttc_threshold))

\* PublishingBeams without the size check: the loop runs over the beams that
\* both the frame and the table hold.
PublishingBeams_unchecked(scan_msg, spd, perim) ==
    LET n == IF Len(scan_msg.ranges) < perim.size THEN Len(scan_msg.ranges)
             ELSE perim.size
    IN  SelectSeq([j \in 1..n |-> j - 1],
                  LAMBDA i : BeamPublishes(scan_msg, spd, perim, i))

\* The beams, in loop order, for which scan_callback publishes; none when the
\* size check rejects the frame.
PublishingBeams(scan_msg, spd, perim) ==
    IF Len(scan_msg.ranges) # perim.size THEN <<>>
    ELSE SelectSeq([j \in 1..Len(scan_msg.ranges) |-> j - 1],
                   LAMBDA i : BeamPublishes(scan_msg, spd, perim, i))

\* What scan_callback publishes on /brake_bool: brake_msg.brake (data = true)
\* once per publishing beam.
scan_callback_brake_bool(scan_msg, spd, perim) ==
    [j \in 1..Len(PublishingBeams(scan_msg, spd, perim)) |-> TRUE]

\* What scan_callback publishes on /brake: brake_msg.speed (drive.speed = 0.0)
\* once per publishing beam.
scan_callback_brake(scan_msg, spd, perim) ==
    [j \in 1..Len(PublishingBeams(scan_msg, spd, perim)) |->
        [steering_angle |-> Num(0), speed |-> Num(0)]]

\* What scan_callback logs: the ROS_INFO of the size check, or nothing.
scan_callback_log(scan_msg, perim) ==
    IF Len(scan_msg.ranges) # perim.size THEN "size mismatch" ELSE "ttc loop"

\* odom_callback: speed = odom_msg->twist.twist.linear.x.
odom_callback_speed(linear_x) == linear_x

\* ---------------------------------------- wall_follow.cpp (part_000)
\* (int)ceil(n/d) for d > 0.
CeilDiv(n, d) == -((-n) \div d)

\* (int)round(n/d) for d > 0: halves are rounded away from zero.
RoundDiv(n, d) ==
    IF n >= 0 THEN (2 * n + d) \div (2 * d) ELSE -((2 * (-n) + d) \div (2 * d))

\* lidar_data as the constructor fills it from the sample frame tmp_scan.
WallFollow_lidar_data(tmp_scan) ==
    [scan_inc |-> tmp_scan.angle_increment,
     min_angle |-> tmp_scan.angle_min,
     max_angle |-> tmp_scan.angle_max,
     num_scans |-> CeilDiv(tmp_scan.angle_max - tmp_scan.angle_min,
                           tmp_scan.angle_increment)]

\* b_idx: the beam orthogonally to the left, round((pi/2 - min_angle)/scan_inc).
WallFollow_b_idx(ld) == RoundDiv(90 - ld.min_angle, ld.scan_inc)

\* a_idx: round(((pi/2 - theta) - min_angle)/scan_inc).
WallFollow_a_idx(ld) == RoundDiv((90 - theta0) - ld.min_angle, ld.scan_inc)

\* theta after the constructor: scan_inc*(a_idx - b_idx).
WallFollow_theta(ld) == ld.scan_inc * (WallFollow_a_idx(ld) - WallFollow_b_idx(ld))

\* The values msg.ranges[idx] can yield: the reading, or any value when idx is
\* outside the frame (an out-of-bounds read of the vector).
RangeRead(msg, idx, anyValue) ==
    IF 0 <= idx /\ idx < Len(msg.ranges) THEN {msg.ranges[idx + 1]} ELSE anyValue

\* The local `dt` of lidar_cb: alpha = atan((a*cos(theta) - b)/(a*sin(theta))),
\* dt = b*cos(alpha).
lidar_cb_dt(a, b, th) ==
    FMul(b, CosAtan(FDiv(FSub(FMul(a, Cos(th)), b), FMul(a, Sin(th)))))

\* lidar_cb feeding the local dt into the controller error without a check
\* of the readings: prev_err = err, err = 1 m - dt.
lidar_cb_pid_unfiltered(pid_state, dt) ==
    [pid_state EXCEPT !.prev_err = pid_state.err, !.err = FSub(Num(1000), dt)]

\* The controller fields (err, prev_err, p, i, d) after lidar_cb ran with the
\* local dt: the callback assigns none of them.
lidar_cb_pid(pid_state, dt) == pid_state

\* lidar_cb publishing a drive command whatever the flag `done` holds.
lidar_cb_drive_ungated(flag, dt) ==
    <<[steering_angle |-> Num(0), speed |-> Num(1000)]>>

\* What lidar_cb publishes on the drive topic, given the flag `done` and the
\* local dt: the callback never calls drive_pub.publish.
lidar_cb_drive(flag, dt) == <<>>

\* mux_cb: done = msg.data[mux_idx]; any value when mux_idx is outside the
\* array.
mux_cb_done(data, idx) ==
    IF 0 <= idx /\ idx < Len(data) THEN {data[idx + 1] # 0} ELSE BOOLEAN

\* ------------------------------------------------------- environment
\* Range readings a frame can carry: NaN, +inf, negative, zero, near, far.
RangeVals == {NaN, Inf(1), Num(-100), Num(0), Num(110), Num(1000)}

\* Readings that fill the beams of a frame other than the one singled out.
BaseVals == {Num(1000)}

\* Forward speeds of the samples on the odometry stream.
OdomSpeeds == {Num(2000)}

\* Forward speeds: reversing, standing, 2 m/s.
Speeds == {Num(-1000), Num(0), Num(2000)}

\* Scanner intrinsics (the header of every frame of a run), in degrees.
Scanners ==
    {[angle_min |-> -45, angle_max |-> 135, angle_increment |-> 45],
     [angle_min |-> 0, angle_max |-> 90, angle_increment |-> 45]}

\* Vehicle geometry on the parameter server: width, wheelbase,
\* scan_distance_to_base_link.
Cars == {[width |-> 200, wheelbase |-> 330, base_link |-> 50]}

\* Range sequences of length 0..MaxBeams: all readings equal, or, in the two
\* longest, one beam singled out.
RangeSeqs ==
    {[j \in 1..n |-> w] : n \in 0..MaxBeams, w \in BaseVals}
    \cup {[j \in 1..n |-> IF j = h THEN v ELSE w] :
             n \in (MaxBeams - 1)..MaxBeams, h \in 1..MaxBeams,
             v \in RangeVals, w \in BaseVals}

\* The frames a scanner with header hdr publishes.
Frames(hdr) ==
    {[angle_min |-> hdr.angle_min, angle_max |-> hdr.angle_max,
      angle_increment |-> hdr.angle_increment, ranges |-> r] : r \in RangeSeqs}

\* The arrays a /mux message can carry.
MuxArrays == [1..MuxLen -> {0, 1}]

\* ------------------------------------------------------------- state
VARIABLES
    clock,            \* time units the nodes still blocked in waitForMessage
                      \* have waited so far; 0 once none waits
    scanner,          \* intrinsics of the scanner of this run
    param_scan_beams, \* parameter scan_beams: <<>> when unset, else <<n>>
    param_car,        \* parameters width, wheelbase, scan_distance_to_base_link
    param_mux_idx,    \* parameter wall_follow_idx
    scan_msg,         \* the latest message on /scan
    pending,          \* callbacks queued for scan_msg and not yet run
    handled,          \* callbacks of WallFollow that have run for scan_msg
    last_odom,        \* forward speed of the latest sample on the odometry stream
    s_pc,             \* Safety: waiting, constructing, spinning, aborted
    shared,           \* Safety::Safety: the sample frame's header
    lidar,            \* Safety::lidar
    car,              \* Safety::car
    car_perimeter,    \* Safety::car_perimeter
    perim_ret,        \* the vector the constructor's compute_car_perim call returned
    speed,            \* Safety::speed
    brake_bool_pub,   \* /brake_bool messages published for scan_msg
    brake_pub,        \* /brake messages published for scan_msg
    s_log,            \* what scan_callback logged for scan_msg; "none" before it ran
    rosout,           \* whether the node's log holds a line of the size check
    w_pc,             \* WallFollow: waiting, constructing, spinning, exited
    tmp_scan,         \* WallFollow::WallFollow: the sample frame's header
    lidar_data,       \* WallFollow::lidar_data
    a_idx,            \* WallFollow::a_idx
    b_idx,            \* WallFollow::b_idx
    theta,            \* WallFollow::theta
    mux_idx,          \* WallFollow::mux_idx
    done,             \* WallFollow::done, the actuation gate flag
    pid,              \* WallFollow::err, prev_err, p, i, d
    drive_sink        \* every message published on the drive topic

envVars == <<clock, scanner, param_scan_beams, param_car, param_mux_idx,
             scan_msg, pending, handled, last_odom>>

safetyVars == <<s_pc, shared, lidar, car, car_perimeter, perim_ret, speed,
                brake_bool_pub, brake_pub, s_log, rosout>>

wfVars == <<w_pc, tmp_scan, lidar_data, a_idx, b_idx, theta, mux_idx, done,
            pid, drive_sink>>

vars == <<envVars, safetyVars, wfVars>>

NoHeader == [angle_min |-> 0, angle_max |-> 0, angle_increment |-> 0]

NoFrame == [angle_min |-> 0, angle_max |-> 0, angle_increment |-> 0,
            ranges |-> <<>>]

NoLidar == [scan_inc |-> 0, min_angle |-> 0, max_angle |-> 0, num_scans |-> 0]

NoCar == [width |-> 0, wheelbase |-> 0, base_link |-> 0]

Header(f) == [angle_min |-> f.angle_min, angle_max |-> f.angle_max,
              angle_increment |-> f.angle_increment]

\* State common to the start of both nodes' fields, before any constructor ran:
\* WallFollow's initializer list sets err, prev_err, p, i, d to 0.0 and
\* Safety's constructor sets speed = 0.0 before it waits.
InitFields ==
    /\ shared = NoHeader /\ lidar = NoLidar /\ car = NoCar
    /\ car_perimeter = EmptyVec /\ perim_ret = EmptyVec
    /\ speed = Num(0)
    /\ brake_bool_pub = <<>> /\ brake_pub = <<>> /\ s_log = "none"
    /\ rosout = FALSE
    /\ tmp_scan = NoHeader /\ lidar_data = NoLidar
    /\ a_idx = 0 /\ b_idx = 0 /\ theta = theta0 /\ mux_idx = 0
    /\ done = FALSE
    /\ pid = [err |-> Num(0), prev_err |-> Num(0),
              p |-> Num(0), i |-> Num(0), d |-> Num(0)]
    /\ drive_sink = <<>>

Init ==
    /\ clock = 0
    /\ scanner \in Scanners
    /\ param_scan_beams \in {<<>>, <<MaxBeams>>}
    /\ param_car \in Cars
    /\ param_mux_idx \in {0, MuxLen}
    /\ scan_msg = NoFrame /\ pending = {} /\ handled = {}
    /\ last_odom = Num(0)
    /\ s_pc = "waiting" /\ w_pc = "waiting"
    /\ InitFields

\* --------------------------------------------------- message streams
\* One time unit passes while a node still waits for its sample frame.
\* WallFollow's wait ends at WaitTimeout, so time does not pass it by.
Tick ==
    /\ clock < MaxClock
    /\ s_pc = "waiting" \/ w_pc = "waiting"
    /\ ~(w_pc = "waiting" /\ clock >= WaitTimeout)
    /\ clock' = clock + 1
    /\ UNCHANGED <<scanner, param_scan_beams, param_car, param_mux_idx,
                   scan_msg, pending, handled, last_odom>>
    /\ UNCHANGED <<safetyVars, wfVars>>

\* The scanner publishes frame f on /scan.  A node blocked in waitForMessage
\* takes it as its sample; each subscription (queue size 1) of a spinning node
\* drops what it held and queues its callback for f.  Safety subscribes
\* scan_callback and odom_callback to /scan, WallFollow lidar_cb.
ScanPublish(f) ==
    /\ scan_msg' = f
    /\ pending' = (IF s_pc = "spinning" THEN {"scan_callback", "odom_callback"}
                   ELSE {})
                  \cup (IF w_pc = "spinning" THEN {"lidar_cb"} ELSE {})
    /\ handled' = {}
    /\ s_pc' = IF s_pc = "waiting" THEN "constructing" ELSE s_pc
    /\ shared' = IF s_pc = "waiting" THEN Header(f) ELSE shared
    /\ w_pc' = IF w_pc = "waiting" THEN "constructing" ELSE w_pc
    /\ tmp_scan' = IF w_pc = "waiting" THEN Header(f) ELSE tmp_scan
    /\ clock' = 0
    /\ UNCHANGED <<scanner, param_scan_beams, param_car, param_mux_idx,
                   last_odom>>
    /\ brake_bool_pub' = <<>> /\ brake_pub' = <<>> /\ s_log' = "none"
    /\ UNCHANGED <<lidar, car, car_perimeter, perim_ret, speed, rosout>>
    /\ UNCHANGED <<lidar_data, a_idx, b_idx, theta, mux_idx, done, pid,
                   drive_sink>>

\* The odometry stream publishes a sample of forward speed v.  No callback of
\* either node is subscribed to the odometry topic.
OdomPublish(v) ==
    /\ last_odom' = v
    /\ UNCHANGED <<clock, scanner, param_scan_beams, param_car, param_mux_idx,
                   scan_msg, pending, handled>>
    /\ UNCHANGED <<safetyVars, wfVars>>

\* ------------------------------------------------------------ Safety
\* Safety::lidar after the constructor: min_angle is assigned angle_max, so
\* (max_angle - min_angle)/scan_inc is 0; getParam("scan_beams") overwrites
\* num_scans when the parameter is set.
Safety_lidar(sample, scan_beams) ==
    LET max_angle == sample.angle_max
        min_angle == sample.angle_max
        num_scans == (max_angle - min_angle) \div sample.angle_increment
    IN  [scan_inc |-> sample.angle_increment,
         max_angle |-> max_angle,
         min_angle |-> min_angle,
         num_scans |-> IF scan_beams = <<>> THEN num_scans ELSE scan_beams[1]]

\* Safety::car_perimeter after the statement `compute_car_perim(car, lidar);`
\* whose returned vector `ret` is discarded.
Safety_car_perimeter(old, ret) == old

\* How the constructor can end after compute_car_perim: stores past size()
\* are undefined; they land in the reserved storage, or a checked operator[]
\* aborts the process.
Safety_ctor_ends(ret) ==
    IF DOMAIN ret.mem = {} THEN {"spinning"} ELSE {"spinning", "aborted"}

\* The rest of Safety::Safety once waitForMessage returned the sample.
Safety_ctor ==
    /\ s_pc = "constructing"
    /\ lidar' = Safety_lidar(shared, param_scan_beams)
    /\ car' = param_car
    /\ \E first \in SizeTOf(lidar'.min_angle) :
          perim_ret' = compute_car_perim(car', lidar', first)
    /\ car_perimeter' = Safety_car_perimeter(car_perimeter, perim_ret')
    /\ s_pc' \in Safety_ctor_ends(perim_ret')
    /\ UNCHANGED <<shared, speed, brake_bool_pub, brake_pub, s_log, rosout>>
    /\ UNCHANGED <<envVars, wfVars>>

\* Safety::scan_callback on the queued frame.
scan_callback ==
    /\ "scan_callback" \in pending
    /\ brake_bool_pub' = scan_callback_brake_bool(scan_msg, speed, car_perimeter)
    /\ brake_pub' = scan_callback_brake(scan_msg, speed, car_perimeter)
    /\ s_log' = scan_callback_log(scan_msg, car_perimeter)
    /\ rosout' = (rosout \/ s_log' = "size mismatch")
    /\ pending' = pending \ {"scan_callback"}
    /\ UNCHANGED <<clock, scanner, param_scan_beams, param_car, param_mux_idx,
                   scan_msg, handled, last_odom>>
    /\ UNCHANGED <<s_pc, shared, lidar, car, car_perimeter, perim_ret, speed>>
    /\ UNCHANGED wfVars

\* Safety::odom_callback, which the constructor subscribes to "/scan": it runs
\* for the queued scan frame, after scan_callback (subscribed first).  The
\* message is no odometry sample; twist.twist.linear.x read from it is
\* indeterminate.
odom_callback ==
    /\ "odom_callback" \in pending
    /\ "scan_callback" \notin pending
    /\ \E linear_x \in Speeds : speed' = odom_callback_speed(linear_x)
    /\ pending' = pending \ {"odom_callback"}
    /\ UNCHANGED <<clock, scanner, param_scan_beams, param_car, param_mux_idx,
                   scan_msg, handled, last_odom>>
    /\ UNCHANGED <<s_pc, shared, lidar, car, car_perimeter, perim_ret,
                   brake_bool_pub, brake_pub, s_log, rosout>>
    /\ UNCHANGED wfVars

\* -------------------------------------------------------- WallFollow
\* waitForMessage returned NULL after ros::Duration(10.0): exit(-1).
WallFollow_timeout ==
    /\ w_pc = "waiting"
    /\ clock >= WaitTimeout
    /\ w_pc' = "exited"
    /\ UNCHANGED <<tmp_scan, lidar_data, a_idx, b_idx, theta, mux_idx, done,
                   pid, drive_sink>>
    /\ UNCHANGED <<envVars, safetyVars>>

\* The rest of WallFollow::WallFollow once waitForMessage returned the sample.
\* `done` has no initializer: until the first /mux message it is indeterminate.
WallFollow_ctor ==
    /\ w_pc = "constructing"
    /\ lidar_data' = WallFollow_lidar_data(tmp_scan)
    /\ mux_idx' = param_mux_idx
    /\ b_idx' = WallFollow_b_idx(lidar_data')
    /\ a_idx' = WallFollow_a_idx(lidar_data')
    /\ theta' = WallFollow_theta(lidar_data')
    /\ done' \in BOOLEAN
    /\ w_pc' = "spinning"
    /\ UNCHANGED <<tmp_scan, pid, drive_sink>>
    /\ UNCHANGED <<envVars, safetyVars>>

\* WallFollow::mux_cb on a /mux message carrying `data`.
mux_cb(data) ==
    /\ w_pc = "spinning"
    /\ done' \in mux_cb_done(data, mux_idx)
    /\ UNCHANGED <<w_pc, tmp_scan, lidar_data, a_idx, b_idx, theta, mux_idx,
                   pid, drive_sink>>
    /\ UNCHANGED <<envVars, safetyVars>>

\* WallFollow::lidar_cb on the queued frame.
lidar_cb ==
    /\ "lidar_cb" \in pending
    /\ \E a \in RangeRead(scan_msg, a_idx, RangeVals),
          b \in RangeRead(scan_msg, b_idx, RangeVals) :
          LET dt == lidar_cb_dt(a, b, theta)
          IN  /\ pid' = lidar_cb_pid(pid, dt)
              /\ drive_sink' = drive_sink \o lidar_cb_drive(done, dt)
    /\ pending' = pending \ {"lidar_cb"}
    /\ handled' = handled \cup {"lidar_cb"}
    /\ UNCHANGED <<clock, scanner, param_scan_beams, param_car, param_mux_idx,
                   scan_msg, last_odom>>
    /\ UNCHANGED <<w_pc, tmp_scan, lidar_data, a_idx, b_idx, theta, mux_idx,
                   done>>
    /\ UNCHANGED safetyVars

\* ----------------------------------------------------- specification
Next ==
    \/ Tick
    \/ \E f \in Frames(scanner) : ScanPublish(f)
    \/ \E v \in OdomSpeeds : OdomPublish(v)
    \/ Safety_ctor
    \/ scan_callback
    \/ odom_callback
    \/ WallFollow_timeout
    \/ WallFollow_ctor
    \/ \E data \in MuxArrays : mux_cb(data)
    \/ lidar_cb

Spec == Init /\ [][Next]_vars

\* ------------------------------------ Safety's callbacks, any fields
\* Perimeter distances a stored table can hold.
PerimVals == {Num(100), Num(300)}

\* Perimeter tables of 0..MaxBeams equal entries.
Tables == {[j \in 1..n |-> q] : n \in 0..MaxBeams, q \in PerimVals}

\* Range sequences of length 0..MaxBeams: one beam singled out among equal
\* ones, the equal ones far, zero or NaN.
ObjRangeSeqs ==
    {[j \in 1..n |-> IF j = h THEN v ELSE w] :
        n \in 0..MaxBeams, h \in 1..MaxBeams, v \in RangeVals,
        w \in {Num(1000), Num(0), NaN}}

ObjFrames(hdr) ==
    {[angle_min |-> hdr.angle_min, angle_max |-> hdr.angle_max,
      angle_increment |-> hdr.angle_increment, ranges |-> r] : r \in ObjRangeSeqs}

\* A spinning Safety object whose car_perimeter holds any table and whose
\* speed holds any value: the states its callbacks are specified for, among
\* them the one its constructor leaves (the empty table, speed 0).
InitObj ==
    /\ clock = 0
    /\ scanner \in Scanners
    /\ param_scan_beams = <<>>
    /\ param_car \in Cars
    /\ param_mux_idx = 0
    /\ scan_msg = NoFrame /\ pending = {} /\ handled = {}
    /\ last_odom = Num(0)
    /\ s_pc = "spinning" /\ w_pc = "exited"
    /\ shared = scanner
    /\ car = param_car
    /\ \E t \in Tables :
          /\ car_perimeter = Vec(t)
          /\ lidar = Safety_lidar(scanner, <<Len(t)>>)
    /\ perim_ret = EmptyVec
    /\ speed \in Speeds
    /\ brake_bool_pub = <<>> /\ brake_pub = <<>> /\ s_log = "none"
    /\ rosout = FALSE
    /\ tmp_scan = NoHeader /\ lidar_data = NoLidar
    /\ a_idx = 0 /\ b_idx = 0 /\ theta = theta0 /\ mux_idx = 0
    /\ done = FALSE
    /\ pid = [err |-> Num(0), prev_err |-> Num(0),
              p |-> Num(0), i |-> Num(0), d |-> Num(0)]
    /\ drive_sink = <<>>

NextObj ==
    \/ \E f \in ObjFrames(scanner) : ScanPublish(f)
    \/ scan_callback
    \/ odom_callback

SpecObj == InitObj /\ [][NextObj]_vars

\* ------------------------------------------------------------ claims
\* A range reading that is a valid obstacle measurement: finite and positive.
Valid(r) == r.k = "num" /\ r.v > 0

\* scan_callback has run for scan_msg and speed still holds the value it read
\* (odom_callback, queued behind it, has not run yet).
ScanCallbackRan == s_log # "none" /\ "odom_callback" \in pending

\* This step is a run of scan_callback.
ScanCallbackStep == "scan_callback" \in pending /\ "scan_callback" \notin pending'

\* This step is a run of lidar_cb.
LidarCbStep == "lidar_cb" \in pending /\ "lidar_cb" \notin pending'

\* The brake outputs were published for scan_msg.
BrakePublished == brake_bool_pub # <<>> /\ brake_pub # <<>>

\* Nothing was published for scan_msg.
NothingPublished == brake_bool_pub = <<>> /\ brake_pub = <<>>

\* closing_velocity of beam i of frame f at speed spd.
LawClosing(f, spd, i) == FMul(spd, Cos(f.angle_min + i * f.angle_increment))

\* Beam i of frame f triggers the brake at speed spd against the perimeter
\* entry q: closing_velocity > 0 and (range - q)/closing_velocity < ttc_threshold.
LawTriggers(f, spd, q, i) ==
    /\ FLt(Num(0), LawClosing(f, spd, i))
    /\ FLt(FDiv(FSub(f.ranges[i + 1], q), LawClosing(f, spd, i)),
           Num(ttc_threshold))

\* Entry i of the perimeter table: the stored entry, and where the node holds
\* none, the body-edge distance along beam i that the table is to hold.
TableEntry(f, i) ==
    IF i \in DOMAIN car_perimeter.mem /\ i < car_perimeter.size
    THEN car_perimeter.mem[i]
    ELSE perimeter_at(car, f.angle_min + i * f.angle_increment)

\* num_beams of the sample frame: ceil((angle_max - angle_min)/angle_increment).
NumBeams(sample) ==
    CeilDiv(sample.angle_max - sample.angle_min, sample.angle_increment)

C2_GateEnforcement ==
    [][/\ (done = FALSE) => drive_sink' = drive_sink
       /\ (done' # done) =>
             UNCHANGED <<brake_bool_pub, brake_pub, s_log, rosout, speed,
                         car_perimeter, scan_msg, s_pc>>]_vars

\* C2 witness: lidar_cb has handled a frame with valid readings on both of its
\* beams while the gate flag was false, and the drive sink is empty.
C2_Witness ==
    /\ w_pc = "spinning" /\ done = FALSE /\ "lidar_cb" \in handled
    /\ a_idx < Len(scan_msg.ranges) /\ b_idx < Len(scan_msg.ranges)
    /\ Valid(scan_msg.ranges[a_idx + 1]) /\ Valid(scan_msg.ranges[b_idx + 1])
    /\ s_pc = "spinning" /\ s_log # "none"
    /\ drive_sink = <<>>

\* C3: when scan_callback published the brake for a frame, some beam with a
\* valid reading (finite, positive) is closing with ttc < ttc_threshold: a
\* beam with an infinite, NaN, zero or negative reading never is the cause.
C3_InvalidReadingsExcluded ==
    (ScanCallbackRan /\ ~NothingPublished) =>
        \E i \in 0..(Len(scan_msg.ranges) - 1) :
            /\ Valid(scan_msg.ranges[i + 1])
            /\ i < car_perimeter.size
            /\ LawTriggers(scan_msg, speed, car_perimeter.mem[i], i)

\* C4: a run of scan_callback on a frame whose length differs from the
\* table's publishes nothing, leaves speed and the table as they were and logs
\* the mismatch; a run on a frame of the table's length goes through the TTC
\* loop and publishes exactly when a beam triggers, whatever was rejected
\* before; and the node keeps spinning.
C4_MismatchRecoverable ==
    /\ [][ScanCallbackStep =>
            IF Len(scan_msg.ranges) # car_perimeter.size
            THEN /\ brake_bool_pub' = <<>> /\ brake_pub' = <<>>
                 /\ speed' = speed /\ car_perimeter' = car_perimeter
                 /\ s_log' = "size mismatch"
            ELSE /\ s_log' = "ttc loop"
                 /\ (brake_bool_pub' # <<>> /\ brake_pub' # <<>>)
                    <=> \E i \in 0..(Len(scan_msg.ranges) - 1) :
                           LawTriggers(scan_msg, speed, car_perimeter.mem[i], i)
                 /\ (brake_bool_pub' = <<>>) <=> (brake_pub' = <<>>)]_vars
    /\ [](rosout => s_pc = "spinning")

\* C4 witness: after a frame was rejected by the size check, a frame of the
\* table's length went through the TTC loop and the brake was published.
C4_Witness ==
    /\ rosout /\ s_log = "ttc loop" /\ BrakePublished
    /\ car_perimeter.size > 0

\* C5: once Safety's constructor has finished, car_perimeter has num_beams
\* entries.
C5_TableLength ==
    (s_pc = "spinning") => car_perimeter.size = NumBeams(shared)

\* C6: the speed scan_callback is about to use equals the latest sample of the
\* odometry stream (0.0 before any).
C6_LatestSpeed ==
    ("scan_callback" \in pending) => speed = last_odom

\* C7: no node is still blocked in its startup wait after more than
\* WaitTimeout time units.
C7_BoundedWait ==
    (clock > WaitTimeout) => (s_pc # "waiting" /\ w_pc # "waiting")

\* C8: the controller fields are always finite, and a run of lidar_cb on a
\* frame whose a_idx or b_idx reading is infinite, NaN or non-positive leaves
\* the controller fields as they were and publishes no drive command.
C8_InvalidBeamPolicy ==
    /\ [](\A fld \in DOMAIN pid : IsFinite(pid[fld]))
    /\ [][(/\ LidarCbStep
           /\ \/ ~(a_idx < Len(scan_msg.ranges) /\ Valid(scan_msg.ranges[a_idx + 1]))
              \/ ~(b_idx < Len(scan_msg.ranges) /\ Valid(scan_msg.ranges[b_idx + 1])))
          => (pid' = pid /\ drive_sink' = drive_sink)]_vars

\* C8 witness: lidar_cb has handled a frame whose a_idx reading is invalid and
\* whose local dt came out NaN; the controller fields are still 0.
C8_Witness ==
    /\ w_pc = "spinning" /\ "lidar_cb" \in handled
    /\ a_idx < Len(scan_msg.ranges) /\ b_idx < Len(scan_msg.ranges)
    /\ ~Valid(scan_msg.ranges[a_idx + 1])
    /\ lidar_cb_dt(scan_msg.ranges[a_idx + 1], scan_msg.ranges[b_idx + 1],
                   theta).k = "nan"
    /\ \A fld \in DOMAIN pid : pid[fld] = Num(0)
    /\ drive_sink = <<>>

\* C9: the vector compute_car_perim returned holds, for every beam index i in
\* 0..num_scans-1, the quadrant-rule distance at that beam's angle
\* min_angle + i*scan_inc.
C9_PerimeterContent ==
    (s_pc \in {"spinning", "aborted"}) =>
        \A i \in 0..(lidar.num_scans - 1) :
            /\ i \in DOMAIN perim_ret.mem
            /\ perim_ret.mem[i] =
                  perimeter_at(car, lidar.min_angle + i * lidar.scan_inc)

\* C10: after a node's constructor, its stored intrinsics equal the sample
\* frame's angle_min, angle_max and angle_increment, with
\* num_beams = ceil((angle_max - angle_min)/angle_increment).
C10_LidarCapture ==
    /\ (s_pc = "spinning") =>
          /\ lidar.min_angle = shared.angle_min
          /\ lidar.max_angle = shared.angle_max
          /\ lidar.scan_inc = shared.angle_increment
          /\ lidar.num_scans = NumBeams(shared)
    /\ (w_pc = "spinning") =>
          /\ lidar_data.min_angle = tmp_scan.angle_min
          /\ lidar_data.max_angle = tmp_scan.angle_max
          /\ lidar_data.scan_inc = tmp_scan.angle_increment
          /\ lidar_data.num_scans = NumBeams(tmp_scan)

====
